---- MODULE Spec2Model ----
(***************************************************************************)
(* Model of scripts/sample-script-watch-folder.py: the supervisor loop of  *)
(* main(), the session thread running monitor_folder(), the watchdog       *)
(* observer with the FolderEventHandler callbacks, and the environment     *)
(* (directory tree, PERIODICITY variable, user interrupt).                  *)
(*                                                                         *)
(* A path is a sequence of components; a component is a sequence of text   *)
(* fragments, so that basename, abspath and the substring test can be      *)
(* computed.  A folder identity is the sequence of decimal digits that     *)
(* f"{int(st_ctime)}" prints; the empty sequence is the empty string.      *)
(***************************************************************************)
EXTENDS Integers, Sequences, FiniteSets, TLC

\* ------------------------------------------------------------------ bounds
MaxGen == 2          \* directory incarnations the environment creates
TicksPerSecond == 2  \* resolution of st_ctime below one second
BaseTime == 19       \* st_ctime, in ticks, of the first incarnation
MaxQueue == 1        \* rename notifications waiting in the observer's queue

DEFAULT_PERIODICITY == 5

\* ------------------------------------------------------------------ paths
Cwd == << <<"/">>, <<"srv">> >>
WatchedName == <<"watched_folder">>
RenamedName == <<"renamed_folder">>
DirNames == {WatchedName, RenamedName}

MONITORED_FOLDER == << <<".">>, WatchedName >>

abspath(p) == IF p # <<>> /\ Head(p) = <<".">> THEN Cwd \o Tail(p) ELSE p

basename(p) == IF p = <<>> THEN <<>> ELSE p[Len(p)]

AbsDirs == {Cwd \o <<n>> : n \in DirNames}
RelOf(d) == << <<".">>, d[Len(d)] >>
Forms(d) == {d, RelOf(d)}

BannedMarker == <<"content-", "banned">>

\* the Python test  needle in hay  on strings
Contains(hay, needle) ==
    \E i \in 0..(Len(hay) - Len(needle)) :
        \A j \in 1..Len(needle) : hay[i + j] = needle[j]

ChildNames == { <<"content-", "banned", "-report.txt">>,
                <<"report.txt">>,
                <<"banned", "content-">> }

\* ------------------------------------------------------------- filesystem
\* an inode is named by its generation; the environment creates one
\* directory per tick, which fixes the st_ctime of each generation
NoDir == 0
st_ctime(gen) == BaseTime + gen - 1

exists(fsys, p) == abspath(p) \in DOMAIN fsys /\ fsys[abspath(p)] # NoDir

RECURSIVE ToDigits(_)
ToDigits(n) == IF n < 10 THEN <<n>> ELSE ToDigits(n \div 10) \o <<n % 10>>

\* get_folder_id: "" on FileNotFoundError, else the printed int(st_ctime)
get_folder_id(fsys, p) ==
    IF exists(fsys, p)
    THEN ToDigits(st_ctime(fsys[abspath(p)]) \div TicksPerSecond)
    ELSE <<>>

\* ------------------------------------------------------------ PERIODICITY
DigitVal == ("0" :> 0) @@ ("1" :> 1) @@ ("2" :> 2) @@ ("3" :> 3) @@ ("4" :> 4)
            @@ ("5" :> 5) @@ ("6" :> 6) @@ ("7" :> 7) @@ ("8" :> 8) @@ ("9" :> 9)

RECURSIVE DigitsValue(_)
DigitsValue(s) ==
    IF s = <<>> THEN 0
    ELSE 10 * DigitsValue(SubSeq(s, 1, Len(s) - 1)) + DigitVal[s[Len(s)]]

AllDigits(s) == s # <<>> /\ \A i \in 1..Len(s) : s[i] \in DOMAIN DigitVal

\* int(text): the value, or ok = FALSE for ValueError
ParseInt(s) ==
    IF AllDigits(s) THEN [ok |-> TRUE, val |-> DigitsValue(s)]
    ELSE IF s # <<>> /\ Head(s) = "-" /\ AllDigits(Tail(s))
         THEN [ok |-> TRUE, val |-> 0 - DigitsValue(Tail(s))]
         ELSE [ok |-> FALSE, val |-> 0]

Unset == [set |-> FALSE, text |-> <<>>]
EnvValues == {Unset} \cup
             {[set |-> TRUE, text |-> t] : t \in {<<"1", "0">>, <<"x">>}}

\* int(os.getenv('PERIODICITY', DEFAULT_PERIODICITY))
PeriodOf(e) == IF e.set THEN ParseInt(e.text)
               ELSE [ok |-> TRUE, val |-> DEFAULT_PERIODICITY]

\* time.sleep(int(...)): raises on a failed conversion or a negative length
SleepOutcome(e) ==
    IF PeriodOf(e).ok /\ PeriodOf(e).val >= 0
    THEN [ok |-> TRUE, val |-> PeriodOf(e).val]
    ELSE [ok |-> FALSE, val |-> 0]

\* ------------------------------------------------------------------ state
VARIABLES
    fs,               \* directory tree: absolute path -> inode generation
    nextGen,          \* next inode generation the environment hands out
    periodicity,      \* os.environ['PERIODICITY']
    supPc,            \* position of the main thread
    main_folder_path, \* main(): folder_path
    main_folder_id,   \* main(): folder_id
    stats,            \* get_folder_id(): the inode os.stat read (0: none)
    wf_path,          \* wait_for_folder(): folder_path
    wf_seen,          \* wait_for_folder(): result of its latest os.path.exists
    gid_path,         \* get_folder_id(): folder_path
    sessPc,           \* position of the monitor thread
    folder_path,      \* monitor_folder(): folder_path (nonlocal in on_moved)
    folder_id,        \* monitor_folder(): folder_id
    observer,         \* state of the watchdog Observer of the session
    queue,            \* move events of the observer not yet dispatched
    hPc,              \* position of the observer thread inside on_moved
    event,            \* the event on_moved is handling
    slept,            \* length of the latest time.sleep of the session
    periodAtStart,    \* PERIODICITY when monitor_folder was entered
    nWarn,            \* "Folder renamed" warnings logged by the session
    nErr,             \* "Error monitoring folder" logs of the session
    nTerm,            \* "monitoring terminated" logs of the session
    lastLog           \* latest record written by log_message

vars == <<fs, nextGen, periodicity, supPc, main_folder_path,
          main_folder_id, stats, wf_path, wf_seen, gid_path, sessPc, folder_path,
          folder_id, observer, queue, hPc, event, slept, periodAtStart,
          nWarn, nErr, nTerm, lastLog>>

envVars == <<fs, nextGen, periodicity>>
supVars == <<supPc, main_folder_path, main_folder_id, stats, wf_path, wf_seen, gid_path>>
sessVars == <<sessPc, folder_path, folder_id, slept, periodAtStart, nErr, nTerm>>
obsVars == <<observer, queue, hPc, event, nWarn>>

NoPath == <<>>
NoEvent == [src |-> NoPath, dest |-> NoPath]
NoSleep == 0 - 1
Log(k, p, d, i) == [kind |-> k, path |-> p, dest |-> d, id |-> i]
NoLog == Log("none", NoPath, NoPath, <<>>)

SessLive == {"start", "check", "beat", "sleep", "except", "stop", "join", "termlog"}
SessOver == {"done", "crashed"}
Alive == supPc # "exited"

Init ==
    /\ fs \in [AbsDirs -> {NoDir}]
    /\ nextGen = 1
    /\ periodicity \in EnvValues
    /\ supPc = "wait_log"
    /\ main_folder_path = MONITORED_FOLDER
    /\ main_folder_id = <<>>
    /\ stats = NoDir
    /\ wf_path = NoPath
    /\ wf_seen = "none"
    /\ gid_path = NoPath
    /\ sessPc = "idle"
    /\ folder_path = NoPath
    /\ folder_id = <<>>
    /\ observer = "none"
    /\ queue = <<>>
    /\ hPc = "idle"
    /\ event = NoEvent
    /\ slept = NoSleep
    /\ periodAtStart = Unset
    /\ nWarn = 0
    /\ nErr = 0
    /\ nTerm = 0
    /\ lastLog = NoLog

\* ------------------------------------------------------------ environment
\* (followed for as long as the process lives)
CreateDir(d) ==
    /\ Alive
    /\ fs[d] = NoDir
    /\ nextGen <= MaxGen
    /\ fs' = [fs EXCEPT ![d] = nextGen]
    /\ nextGen' = nextGen + 1
    /\ UNCHANGED <<periodicity, supVars, sessVars, obsVars, lastLog>>

DeleteDir(d) ==
    /\ Alive
    /\ fs[d] # NoDir
    /\ fs' = [fs EXCEPT ![d] = NoDir]
    /\ UNCHANGED <<nextGen, periodicity, supVars, sessVars, obsVars, lastLog>>

\* rename(2) of a directory: the inode moves to the new path; a running
\* observer is notified of the rename
RenameDir(from, to, rel) ==
    /\ Alive
    /\ from # to
    /\ fs[from] # NoDir
    /\ fs[to] = NoDir
    /\ fs' = [fs EXCEPT ![from] = NoDir, ![to] = fs[from]]
    /\ IF observer = "running"
       THEN /\ Len(queue) < MaxQueue
            /\ queue' = Append(queue,
                   IF rel THEN [src |-> RelOf(from), dest |-> RelOf(to)]
                          ELSE [src |-> from, dest |-> to])
       ELSE queue' = queue
    /\ UNCHANGED <<nextGen, periodicity, supVars, sessVars,
                   observer, hPc, event, nWarn, lastLog>>

SetPeriodicity(e) ==
    /\ Alive
    /\ e # periodicity
    /\ periodicity' = e
    /\ UNCHANGED <<fs, nextGen, supVars, sessVars, obsVars, lastLog>>

\* KeyboardInterrupt in the main thread: logged, then the process exits
\* and its daemon threads die where they stand
Interrupt ==
    /\ Alive
    /\ supPc' = "exited"
    /\ lastLog' = Log("user_exit", NoPath, NoPath, <<>>)
    /\ UNCHANGED <<envVars, main_folder_path, main_folder_id, stats, wf_path,
                   wf_seen, gid_path, sessVars, obsVars>>

\* ------------------------------------------- observer thread: the handlers
\* watchdog reports a child as the scheduled path joined with its name
ChildPaths == {MONITORED_FOLDER \o <<n>> : n \in ChildNames}
EventPaths == ChildPaths \cup {MONITORED_FOLDER}

Dispatching == Alive /\ observer = "running" /\ hPc = "idle"

\* variant: the name filter left out
IsBanned_Always(src) == TRUE

\* lines 35 and 39: "content-banned" in os.path.basename(event.src_path)
IsBanned(src) == Contains(basename(src), BannedMarker)

\* lines 34-36
on_created(src) ==
    /\ Dispatching
    /\ IF IsBanned(src)
       THEN lastLog' = Log("file_created", src, NoPath, <<>>)
       ELSE UNCHANGED lastLog
    /\ UNCHANGED <<envVars, supVars, sessVars, observer, queue, hPc, event, nWarn>>

\* lines 38-40
on_deleted(src) ==
    /\ Dispatching
    /\ IF IsBanned(src)
       THEN lastLog' = Log("file_deleted", src, NoPath, <<>>)
       ELSE UNCHANGED lastLog
    /\ UNCHANGED <<envVars, supVars, sessVars, observer, queue, hPc, event, nWarn>>

\* variant: a move of anything at or below the tracked path matches
SourceMatches_Prefix(tracked, src) ==
    /\ Len(abspath(tracked)) <= Len(abspath(src))
    /\ SubSeq(abspath(src), 1, Len(abspath(tracked))) = abspath(tracked)

\* line 44: os.path.abspath(folder_path) == os.path.abspath(event.src_path)
SourceMatches(tracked, src) == abspath(tracked) = abspath(src)

\* lines 44-45: the comparison and, on a match, the warning
on_moved_begin(ev) ==
    IF SourceMatches(folder_path, ev.src)
    THEN /\ lastLog' = Log("renamed", ev.src, ev.dest, <<>>)
         /\ nWarn' = nWarn + 1
         /\ hPc' = "assign"
         /\ event' = ev
    ELSE UNCHANGED <<lastLog, nWarn, hPc, event>>

\* a rename of a directory, taken from the observer's queue
DispatchDirMove ==
    /\ Dispatching
    /\ queue # <<>>
    /\ on_moved_begin(Head(queue))
    /\ queue' = Tail(queue)
    /\ UNCHANGED <<envVars, supVars, sessVars, observer>>

\* a rename of a child of the watched directory
DispatchChildMove(src, dest) ==
    /\ Dispatching
    /\ on_moved_begin([src |-> src, dest |-> dest])
    /\ UNCHANGED <<envVars, supVars, sessVars, observer, queue>>

\* variant: the tracked path is set to the path the directory left
NewTrackedPath_Source(ev) == ev.src

\* line 46: the value assigned, event.dest_path
NewTrackedPath(ev) == ev.dest

\* line 46
on_moved_assign ==
    /\ Alive
    /\ hPc = "assign"
    /\ folder_path' = NewTrackedPath(event)
    /\ hPc' = "stop"
    /\ UNCHANGED <<envVars, supVars, sessPc, folder_id, slept, periodAtStart,
                   nErr, nTerm, observer, queue, event, nWarn, lastLog>>

\* variant: a stop that does not set the flag
ObserverStop_Noop(o) == o

\* variant: a stop that sets the state whatever it was
ObserverStop_Resets(o) == IF o = "none" THEN o ELSE "stopped"

\* observer.stop(): sets the stop flag; a second call changes nothing
ObserverStop(o) == IF o = "running" THEN "stopped" ELSE o

\* line 47
on_moved_stop ==
    /\ Alive
    /\ hPc = "stop"
    /\ observer' = ObserverStop(observer)
    /\ hPc' = "idle"
    /\ event' = NoEvent
    /\ UNCHANGED <<envVars, supVars, sessVars, queue, nWarn, lastLog>>

\* BaseObserver.run leaves its loop once the stop flag is set and no handler
\* is executing; the observer thread has then ended
ObserverExit ==
    /\ Alive
    /\ observer = "stopped"
    /\ hPc = "idle"
    /\ observer' = "ended"
    /\ UNCHANGED <<envVars, supVars, sessVars, queue, hPc, event, nWarn, lastLog>>

\* ------------------------------------------ monitor thread: monitor_folder
\* lines 49-52: schedule and start the observer.  Starting a watch on a
\* path that is gone raises in the monitor thread on inotify and succeeds
\* on polling back ends; both outcomes are kept.
MonitorStart ==
    /\ Alive
    /\ sessPc = "start"
    /\ periodAtStart' = periodicity
    /\ \/ /\ observer' = "running"
          /\ sessPc' = "check"
       \/ /\ ~exists(fs, folder_path)
          /\ observer' = "none"
          /\ sessPc' = "crashed"
    /\ UNCHANGED <<envVars, supVars, folder_path, folder_id, slept, nErr, nTerm,
                   queue, hPc, event, nWarn, lastLog>>

\* variant: a loop condition that does not look at the path
LoopTest_IgnoresDeletion(fsys, p) == "beat"

\* line 55
LoopTest(fsys, p) == IF exists(fsys, p) THEN "beat" ELSE "stop"

SessCheck ==
    /\ Alive
    /\ sessPc = "check"
    /\ sessPc' = LoopTest(fs, folder_path)
    /\ UNCHANGED <<envVars, supVars, folder_path, folder_id, slept, periodAtStart,
                   nErr, nTerm, obsVars, lastLog>>

\* variant: the identity is resolved again for every record
LoggedId_Fresh(captured, fsys, p) == get_folder_id(fsys, p)

\* lines 56 and 63: the records carry the parameter folder_id
LoggedId(captured, fsys, p) == captured

\* line 56
SessBeat ==
    /\ Alive
    /\ sessPc = "beat"
    /\ lastLog' = Log("heartbeat", folder_path, NoPath,
                      LoggedId(folder_id, fs, folder_path))
    /\ sessPc' = "sleep"
    /\ UNCHANGED <<envVars, supVars, folder_path, folder_id, slept, periodAtStart,
                   nErr, nTerm, obsVars>>

\* line 57: the variable is read and converted at every sleep
SleepLength(atStart, now) == SleepOutcome(now)

SessSleep ==
    /\ Alive
    /\ sessPc = "sleep"
    /\ LET r == SleepLength(periodAtStart, periodicity) IN
         IF r.ok THEN /\ slept' = r.val
                      /\ sessPc' = "check"
                 ELSE /\ slept' = slept
                      /\ sessPc' = "except"
    /\ UNCHANGED <<envVars, supVars, folder_path, folder_id, periodAtStart,
                   nErr, nTerm, obsVars, lastLog>>

\* lines 58-59
SessExcept ==
    /\ Alive
    /\ sessPc = "except"
    /\ lastLog' = Log("error", folder_path, NoPath, <<>>)
    /\ nErr' = nErr + 1
    /\ sessPc' = "stop"
    /\ UNCHANGED <<envVars, supVars, folder_path, folder_id, slept, periodAtStart,
                   nTerm, obsVars>>

\* line 61
SessStop ==
    /\ Alive
    /\ sessPc = "stop"
    /\ observer' = ObserverStop(observer)
    /\ sessPc' = "join"
    /\ UNCHANGED <<envVars, supVars, folder_path, folder_id, slept, periodAtStart,
                   nErr, nTerm, queue, hPc, event, nWarn, lastLog>>

\* variant: a join that does not wait for the observer thread
JoinReturns_NoWait(o) == TRUE

\* line 62: observer.join() returns once the observer thread has ended
JoinReturns(o) == o = "ended"

SessJoin ==
    /\ Alive
    /\ sessPc = "join"
    /\ JoinReturns(observer)
    /\ sessPc' = "termlog"
    /\ UNCHANGED <<envVars, supVars, folder_path, folder_id, slept, periodAtStart,
                   nErr, nTerm, obsVars, lastLog>>

\* line 63
SessTermLog ==
    /\ Alive
    /\ sessPc = "termlog"
    /\ lastLog' = Log("terminated", folder_path, NoPath,
                      LoggedId(folder_id, fs, folder_path))
    /\ nTerm' = nTerm + 1
    /\ sessPc' = "done"
    /\ UNCHANGED <<envVars, supVars, folder_path, folder_id, slept, periodAtStart,
                   nErr, obsVars>>

\* ------------------------------------------------------ main thread: main
\* variant: folder_path shared between main() and on_moved
SupervisedPath_Tracked(configured, tracked) ==
    IF tracked = NoPath THEN configured ELSE tracked

\* the argument main() passes at lines 76 and 78: its own folder_path, which
\* the nonlocal assignment of on_moved (monitor_folder's parameter) never reaches
SupervisedPath(configured, tracked) == configured

\* line 76 -> line 67
SupWaitLog ==
    /\ supPc = "wait_log"
    /\ wf_path' = SupervisedPath(main_folder_path, folder_path)
    /\ wf_seen' = "none"
    /\ lastLog' = Log("waiting", wf_path', NoPath, <<>>)
    /\ supPc' = "poll"
    /\ UNCHANGED <<envVars, main_folder_path, main_folder_id, stats, gid_path,
                   sessVars, obsVars>>

\* variant: an  if  in place of the  while
AfterPoll_ReturnsAnyway(seen) == "get_id"

\* line 68: one evaluation of the loop condition of wait_for_folder
PollResult(fsys, p) == IF exists(fsys, p) THEN "present" ELSE "absent"
AfterPoll(seen) == IF seen = "present" THEN "get_id" ELSE "poll"

SupPoll ==
    /\ supPc = "poll"
    /\ wf_seen' = PollResult(fs, wf_path)
    /\ supPc' = AfterPoll(wf_seen')
    /\ UNCHANGED <<envVars, main_folder_path, main_folder_id, stats, wf_path,
                   gid_path, sessVars, obsVars, lastLog>>

\* variant: the identity is not tested
AfterGetId_AlwaysSpawn(id) == "spawn"

\* line 79
AfterGetId(id) == IF id # <<>> THEN "spawn" ELSE "fail_log"

\* lines 78-79
SupGetId ==
    /\ supPc = "get_id"
    /\ gid_path' = SupervisedPath(main_folder_path, folder_path)
    /\ stats' = IF exists(fs, gid_path') THEN fs[abspath(gid_path')] ELSE NoDir
    /\ main_folder_id' = get_folder_id(fs, gid_path')
    /\ supPc' = AfterGetId(main_folder_id')
    /\ UNCHANGED <<envVars, main_folder_path, wf_path, wf_seen, sessVars, obsVars, lastLog>>

\* lines 80-83: the log and the start of the monitor thread
SupSpawn ==
    /\ supPc = "spawn"
    /\ lastLog' = Log("created", main_folder_path, NoPath, main_folder_id)
    /\ sessPc' = "start"
    /\ folder_path' = main_folder_path
    /\ folder_id' = main_folder_id
    /\ nErr' = 0
    /\ nTerm' = 0
    /\ nWarn' = 0
    /\ observer' = "none"
    /\ queue' = <<>>
    /\ supPc' = "join"
    /\ UNCHANGED <<envVars, main_folder_path, main_folder_id, stats, wf_path, wf_seen, gid_path,
                   slept, periodAtStart, hPc, event>>

\* variant: the main thread waits for a normal return of monitor_folder
ThreadEnded_OnlyReturned(pc) == pc = "done"

\* variant: the main thread does not wait for the monitor thread
ThreadEnded_NoWait(pc) == TRUE

\* line 84: Thread.join returns when the thread has ended, however it ended;
\* what the thread last slept and read of the environment ends with it
ThreadEnded(pc) == pc \in SessOver

SupJoin ==
    /\ supPc = "join"
    /\ ThreadEnded(sessPc)
    /\ supPc' = "wait_log"
    /\ slept' = NoSleep
    /\ periodAtStart' = Unset
    /\ UNCHANGED <<envVars, main_folder_path, main_folder_id, stats, wf_path, wf_seen, gid_path,
                   sessPc, folder_path, folder_id, nErr, nTerm, obsVars, lastLog>>

\* line 86
SupFailLog ==
    /\ supPc = "fail_log"
    /\ lastLog' = Log("failed", main_folder_path, NoPath, <<>>)
    /\ supPc' = "wait_log"
    /\ UNCHANGED <<envVars, main_folder_path, main_folder_id, stats, wf_path, wf_seen, gid_path,
                   sessVars, obsVars>>

\* ---------------------------------------------------------- specification
Environment ==
    \/ CreateDir(abspath(MONITORED_FOLDER))
    \/ \E d \in AbsDirs : DeleteDir(d)
    \/ \E to \in AbsDirs, rel \in BOOLEAN : RenameDir(abspath(MONITORED_FOLDER), to, rel)
    \/ \E e \in EnvValues : SetPeriodicity(e)
    \/ Interrupt

Handlers ==
    \/ \E src \in EventPaths : on_created(src)
    \/ \E src \in EventPaths : on_deleted(src)
    \/ DispatchDirMove
    \/ \E src \in ChildPaths, dest \in ChildPaths : DispatchChildMove(src, dest)
    \/ on_moved_assign
    \/ on_moved_stop
    \/ ObserverExit

Session ==
    \/ MonitorStart
    \/ SessCheck
    \/ SessBeat
    \/ SessSleep
    \/ SessExcept
    \/ SessStop
    \/ SessJoin
    \/ SessTermLog

Supervisor ==
    \/ SupWaitLog
    \/ SupPoll
    \/ SupGetId
    \/ SupSpawn
    \/ SupJoin
    \/ SupFailLog

Next == Environment \/ Handlers \/ Session \/ Supervisor

Spec == Init /\ [][Next]_vars

\* threads that can run do run: the scheduler starves neither the main
\* thread, nor the monitor thread, nor the observer thread inside on_moved
FairSpec ==
    /\ Spec
    /\ WF_vars(Supervisor)
    /\ WF_vars(Session)
    /\ WF_vars(on_moved_assign \/ on_moved_stop \/ ObserverExit)

TypeOK ==
    /\ supPc \in {"wait_log", "poll", "get_id", "spawn", "join", "fail_log", "exited"}
    /\ sessPc \in {"idle"} \cup SessLive \cup SessOver
    /\ observer \in {"none", "running", "stopped", "ended"}
    /\ hPc \in {"idle", "assign", "stop"}
    /\ periodicity \in EnvValues
    /\ Len(queue) <= MaxQueue

Interrupted == supPc = "exited"

\* ================================================================= claims
AbsWatched == abspath(MONITORED_FOLDER)

\* C1: when a move event whose source equals the tracked path is handled,
\* at most one warning is logged and the session then terminates (the
\* monitor thread ends), whatever exists at the destination.
C1_RenameEndsSession ==
    /\ [](nWarn <= 1)
    /\ (nWarn = 1 /\ sessPc \in SessLive) ~> (Interrupted \/ sessPc \in SessOver)

\* C2: "monitoring terminated" is logged and the monitor thread returns only
\* after the observer thread has ended, so while the main thread is between
\* two sessions (waiting, resolving the identity, reporting a failure, about
\* to spawn) no observer is running or inside a handler.
C2_WatcherReleasedBeforeReturn ==
    /\ (sessPc \in {"termlog", "done"} => observer = "ended" /\ hPc = "idle")
    /\ (nTerm > 0 => observer = "ended")
    /\ (supPc \in {"wait_log", "poll", "get_id", "fail_log", "spawn"}
            => observer \in {"none", "ended"} /\ hPc = "idle")

C2_Witness ==
    /\ supPc = "poll"
    /\ sessPc = "done"
    /\ nErr = 1
    /\ observer = "ended"

\* C3: an existence check of the heartbeat loop that finds the tracked path
\* absent is never followed by a heartbeat, and a "Waiting for folder" record
\* that follows a session which entered its loop is written directly after
\* that session's "monitoring terminated" record.
C3_DeletionEndsLoopThenTerminationLog ==
    /\ [][(sessPc = "check" /\ ~exists(fs, folder_path)) => sessPc' # "beat"]_vars
    /\ [][(lastLog' # lastLog /\ lastLog'.kind = "waiting"
           /\ sessPc \notin {"idle", "crashed"} /\ lastLog.kind # "failed")
            => (sessPc = "done"
                /\ lastLog = Log("terminated", folder_path, NoPath, folder_id))]_vars

C3_Witness ==
    /\ supPc = "wait_log"
    /\ sessPc = "done"
    /\ nWarn = 0
    /\ nErr = 0
    /\ ~exists(fs, folder_path)
    /\ lastLog.kind = "terminated"

\* C4: if, with no rename involved, a directory incarnation stays at the
\* configured path for ever, then a session whose identity was resolved from
\* that incarnation is eventually running (or the user interrupted).
C4_RecreatedDirectoryGetsNewSession ==
    \A g \in 1..MaxGen :
        ([](nWarn = 0) /\ <>[](fs[AbsWatched] = g))
            => <>(Interrupted \/ (sessPc \in SessLive /\ stats = g))

\* C5: main()'s folder_path stays the configured path, and every call of
\* wait_for_folder and get_folder_id receives it, also after on_moved
\* rebound the session's tracked path.
C5_SupervisorUsesConfiguredPath ==
    /\ main_folder_path = MONITORED_FOLDER
    /\ wf_path \in {NoPath, MONITORED_FOLDER}
    /\ gid_path \in {NoPath, MONITORED_FOLDER}

C5_Witness ==
    /\ supPc = "spawn"
    /\ gid_path = MONITORED_FOLDER
    /\ wf_path = MONITORED_FOLDER
    /\ nWarn = 1
    /\ abspath(folder_path) # abspath(main_folder_path)

\* C6: a failed identity resolution (path gone at the stat) starts neither a
\* monitor thread nor an observer, is followed by the "Failed to get folder
\* ID" log and then the next wait; a monitor thread only ever runs with a
\* non-empty identity, resolved after wait_for_folder saw the path.
C6_FailedResolutionStartsNothing ==
    /\ []((supPc = "fail_log")
            => (main_folder_id = <<>> /\ stats = 0 /\ sessPc \notin SessLive
                /\ observer \in {"none", "ended"}))
    /\ []((sessPc \in SessLive)
            => (folder_id # <<>> /\ stats # 0 /\ wf_seen = "present"))
    /\ [][(supPc = "get_id" /\ supPc' \notin {"get_id", "exited"}
           /\ ~exists(fs, main_folder_path)) => supPc' = "fail_log"]_vars
    /\ [][(supPc = "fail_log" /\ supPc' \notin {"fail_log", "exited"})
            => (supPc' = "wait_log" /\ lastLog'.kind = "failed"
                /\ sessPc' = sessPc /\ observer' = observer)]_vars

C6_Witness ==
    /\ supPc = "fail_log"
    /\ wf_seen = "present"
    /\ main_folder_id = <<>>

\* C7: an exception raised in the heartbeat loop body leads to: the error
\* log, the observer stopped and ended, "monitoring terminated" logged once,
\* the monitor thread returned, and the main thread at its next iteration.
C7_LoopFailureEndsSessionNormally ==
    /\ [](nErr > 0 => sessPc \in {"stop", "join", "termlog", "done"})
    /\ (sessPc = "except")
          ~> (Interrupted \/ (supPc = "wait_log" /\ sessPc = "done" /\ nErr = 1
                              /\ nTerm = 1 /\ observer = "ended"))

C7_Witness ==
    /\ supPc = "wait_log"
    /\ sessPc = "done"
    /\ nErr = 1
    /\ nTerm = 1
    /\ ~PeriodOf(periodicity).ok

C9_WaitReturnsOnlyWhenSeen ==
    /\ [](supPc \in {"get_id", "spawn", "fail_log", "join"} => wf_seen = "present")
    /\ [](supPc = "poll" => wf_seen \in {"none", "absent"})
    /\ [][(supPc = "poll" /\ supPc' = "get_id") => exists(fs, wf_path)]_vars
    /\ [][(supPc = "poll" /\ wf_seen' # wf_seen)
            => (wf_seen' = PollResult(fs, wf_path)
                /\ (supPc' = "get_id" <=> exists(fs, wf_path)))]_vars

C9_Witness ==
    /\ supPc = "get_id"
    /\ wf_seen = "present"
    /\ sessPc = "done"
    /\ exists(fs, wf_path)

\* C10: every sleep of a session has the length PERIODICITY had when the
\* session started.
C10_PeriodFixedAtSessionStart ==
    (sessPc \in SessLive /\ slept # NoSleep)
        => (SleepOutcome(periodAtStart).ok /\ slept = SleepOutcome(periodAtStart).val)

\* C11: a create or delete event for a child writes exactly one record,
\* carrying the child's path, when the child's base name contains
\* "content-banned", and writes nothing otherwise; no other step writes such
\* a record.
C11_FileEventsLoggedIffBanned ==
    [][/\ \A src \in EventPaths :
            /\ on_created(src)
                => IF Contains(basename(src), BannedMarker)
                   THEN lastLog' = Log("file_created", src, NoPath, <<>>)
                   ELSE lastLog' = lastLog
            /\ on_deleted(src)
                => IF Contains(basename(src), BannedMarker)
                   THEN lastLog' = Log("file_deleted", src, NoPath, <<>>)
                   ELSE lastLog' = lastLog
       /\ (lastLog' # lastLog /\ lastLog'.kind \in {"file_created", "file_deleted"})
            => (/\ Dispatching
                /\ lastLog'.path \in EventPaths
                /\ Contains(basename(lastLog'.path), BannedMarker)
                /\ lastLog'.dest = NoPath
                /\ UNCHANGED <<sessVars, supVars, envVars, obsVars>>)]_vars

C11_Witness ==
    /\ lastLog.kind = "file_deleted"
    /\ Contains(basename(lastLog.path), BannedMarker)
    /\ sessPc \in SessLive
    /\ observer = "running"

\* C12: when on_moved has already stopped the observer, the stop of the
\* finally block changes nothing and the session goes on to the join; every
\* session logs "monitoring terminated" at most once, and exactly once when
\* it has returned.
C12_SecondStopIsHarmless ==
    /\ [](nTerm <= 1)
    /\ [](sessPc = "done" => nTerm = 1)
    /\ [][(sessPc = "stop" /\ sessPc' # "stop" /\ observer # "running")
            => (sessPc' = "join" /\ observer' = observer)]_vars

C12_Witness ==
    /\ sessPc = "done"
    /\ nWarn = 1
    /\ nTerm = 1
    /\ observer = "ended"
    /\ supPc = "join"

\* the session states of the design: ACTIVE from the start of the monitor
\* thread, RENAMED once on_moved has matched, rebound the path, signalled the
\* stop and returned, TERMINATED once "monitoring terminated" is logged
SessionState ==
    IF sessPc \notin (SessLive \cup {"done"}) THEN "NONE"
    ELSE IF nTerm > 0 THEN "TERMINATED"
    ELSE IF nWarn > 0 /\ hPc = "idle" THEN "RENAMED"
    ELSE "ACTIVE"

\* C13: the session state only moves forward along ACTIVE, RENAMED,
\* TERMINATED; a RENAMED session does not pass another existence check into
\* a heartbeat; a TERMINATED session writes no record and keeps its path.
C13_SessionStateMonotonic ==
    [][/\ (SessionState = "RENAMED") => (SessionState' \in {"RENAMED", "TERMINATED"})
       /\ (SessionState = "TERMINATED")
            => (SessionState' = "TERMINATED" \/ sessPc' = "start")
       /\ (SessionState = "RENAMED" /\ sessPc = "check") => (sessPc' # "beat")
       /\ (SessionState = "TERMINATED" /\ SessionState' = "TERMINATED")
            => (/\ folder_path' = folder_path
                /\ (lastLog' # lastLog
                      => lastLog'.kind \in {"waiting", "failed", "user_exit"}))]_vars

\* C14: while a monitor thread runs, the main thread is in monitor_thread.join
\* (or the process has exited); a monitor thread is started only by the spawn
\* of the main thread, when the previous monitor thread has ended and its
\* observer is not alive.
C14_OneSessionAtATime ==
    /\ [](sessPc \in SessLive => supPc \in {"join", "exited"})
    /\ [][(sessPc' = "start" /\ sessPc # "start")
            => (/\ supPc = "spawn"
                /\ supPc' = "join"
                /\ sessPc \in {"idle"} \cup SessOver
                /\ observer \in {"none", "ended"}
                /\ hPc = "idle")]_vars

C14_Witness ==
    /\ supPc = "join"
    /\ sessPc = "sleep"
    /\ observer = "running"
    /\ stats = 2
    /\ nTerm = 0

\* C15: a move event whose source is not the tracked path, whatever the names
\* of its source and destination, changes nothing: no log record, no
\* rebinding, no stop of the observer, the handler stays idle.  A rename
\* warning is written only for an event whose source is the tracked path.
C15_OtherMovesIgnored ==
    [][/\ \A src \in ChildPaths, dest \in ChildPaths :
            (DispatchChildMove(src, dest) /\ abspath(folder_path) # abspath(src))
                => UNCHANGED <<lastLog, nWarn, folder_path, observer,
                               hPc, event, sessPc>>
       /\ (queue # <<>> /\ DispatchDirMove
            /\ abspath(folder_path) # abspath(Head(queue).src))
                => UNCHANGED <<lastLog, nWarn, folder_path, observer,
                               hPc, event, sessPc>>
       /\ (nWarn' = nWarn + 1)
            => (/\ lastLog'.kind = "renamed"
                /\ abspath(lastLog'.path) = abspath(folder_path))]_vars

C15_Witness ==
    /\ Dispatching
    /\ sessPc = "sleep"
    /\ nWarn = 0
    /\ \E src \in ChildPaths, dest \in ChildPaths :
            /\ IsBanned(src)
            /\ abspath(folder_path) # abspath(src)
            /\ ENABLED DispatchChildMove(src, dest)

\* C16: within a session the tracked path is written only by the move handler,
\* only after its source matched the tracked path, and the value written is
\* the destination of that event; the heartbeat loop, the other handlers, the
\* main thread and the environment never change it.  (The only other write is
\* the binding of the parameter when a new session starts.)
C16_TrackedPathSingleWriter ==
    [][(folder_path' # folder_path)
        => \/ /\ hPc = "assign"
              /\ hPc' = "stop"
              /\ abspath(folder_path) = abspath(event.src)
              /\ folder_path' = event.dest
              /\ UNCHANGED <<sessPc, supPc, fs>>
           \/ /\ sessPc' = "start"
              /\ sessPc # "start"
              /\ folder_path' = main_folder_path]_vars

C16_Witness ==
    /\ hPc = "stop"
    /\ folder_path = event.dest
    /\ abspath(folder_path) # AbsWatched
    /\ sessPc \in {"check", "beat", "sleep"}
    /\ observer = "running"

\* C17: the identity of a session is the one resolved when the session was
\* created and never changes while the session lives; every heartbeat record
\* and the termination record carry it, also after the tracked path has been
\* rebound and whatever is then found at that path.
C17_SessionIdentityImmutable ==
    [][/\ (folder_id' # folder_id) => (sessPc' = "start" /\ sessPc # "start")
       /\ (sessPc \in SessLive /\ sessPc' \in SessLive \cup {"done"})
            => (main_folder_id' = main_folder_id /\ folder_id = main_folder_id)
       /\ (sessPc = "beat" /\ sessPc' = "sleep")
            => lastLog' = Log("heartbeat", folder_path, NoPath, main_folder_id)
       /\ (sessPc = "termlog" /\ sessPc' = "done")
            => lastLog' = Log("terminated", folder_path, NoPath, main_folder_id)
       /\ (lastLog' # lastLog /\ lastLog'.kind \in {"heartbeat", "terminated"})
            => lastLog'.id = folder_id]_vars

C17_Witness ==
    /\ lastLog.kind = "heartbeat"
    /\ nWarn = 1
    /\ hPc = "idle"
    /\ abspath(lastLog.path) # AbsWatched
    /\ lastLog.id = folder_id
    /\ lastLog.id # <<>>
    /\ sessPc = "sleep"

\* C18: the heartbeat loop goes on from its existence check to a heartbeat
\* only while the observer of the session is running; once the move handler
\* has stopped the observer, the session logs no further heartbeat.
C18_NoHeartbeatAfterWatcherStopped ==
    [][(sessPc = "check" /\ sessPc' = "beat") => observer = "running"]_vars

\* C19: a session goes on from its existence check to a heartbeat only if the
\* directory now found at the tracked path has the identity of the session; a
\* directory deleted and created again between two checks is not reported
\* under the old identity.
C19_HeartbeatIdentityIsCurrent ==
    [][(sessPc = "check" /\ sessPc' = "beat")
        => get_folder_id(fs, folder_path) = folder_id]_vars

\* C20: the process never exits on a user interrupt with a started observer
\* left running: an observer that was started has been stopped, and the
\* termination record of its session has been written, before the exit.
C20_InterruptReleasesWatcher ==
    Interrupted => (observer # "running" /\ (observer # "none" => nTerm = 1))
====
